---- MODULE Spec2Model ----
(***************************************************************************)
(* Model of the two-party signaling server                                 *)
(* src/peertopeervideo/server/main.go (the session-based Hub, lines        *)
(* 293-635): the room registry, join / relay / disconnect / grace-timer    *)
(* finalize, and the per-connection outbound queue.                        *)
(*                                                                         *)
(* One goroutine per connection runs readLoop; every time.AfterFunc timer  *)
(* runs its callback on a goroutine of its own.  A handler that holds      *)
(* h.mu is atomic with respect to every other holder of h.mu, so the model *)
(* takes one step per critical section, except where code that runs        *)
(* WITHOUT the lock (relay, lines 447-459) can observe the middle of one:  *)
(* handleJoin is cut between its evictions and its registration.           *)
(*                                                                         *)
(* Connection identities (randomID, 8 random bytes) are taken to be        *)
(* unique: client c has identity c, and 0 stands for the empty string in   *)
(* the clientId / fromId / targetId fields.  The opaque SDP and candidate  *)
(* payloads are carried unchanged and are left out of the messages.        *)
(***************************************************************************)
EXTENDS Integers, Sequences, FiniteSets, TLC

\* ---------------------------------------------------------------- bounds
\* The environment of a run: how many connections arrive.  Each
\* specification below fixes one environment.
NClients     == 3      \* Spec: connections accepted
RelayClients == 2      \* SpecRelay: connections accepted
FloodClients == 2      \* SpecFlood: connections accepted

\* ------------------------------------------------------ program constants
SendCap == 16          \* make(chan SignalMessage, 16)

Clients    == 1..NClients
NoSuchId   == NClients + 1            \* an identity no connection has
TargetIds  == 0..NoSuchId             \* what a client may put in targetId
FromIds    == {0, 1, NoSuchId}        \* what a client may put in fromId
RoomSeq    == <<"alpha", "beta">>
SessionSeq == <<"S1", "S2", "S3">>
RoomNames  == {RoomSeq[i] : i \in 1..Len(RoomSeq)}
SessionIds == {SessionSeq[i] : i \in 1..Len(SessionSeq)}
RelayTypes == {"offer", "answer", "ice"}
Detached   == "detached"              \* a Room object no longer in h.rooms

VARIABLES
    pc,               \* position of each connection's readLoop goroutine
    room,             \* Client.room      ("" until joined)
    sessionID,        \* Client.sessionID ("" until joined)
    disconnectedAt,   \* Client.disconnectedAt is non-zero
    disconnectTimer,  \* Client.disconnectTimer and its callback goroutine
    send,             \* Client.send: the buffered channel's contents
    closed,           \* Client.send has been closed
    mu,               \* Hub.mu: <<>> when free, else its holder
    rooms,            \* keys of Hub.rooms
    peers,            \* Room.peers    of the room registered under a name
    sessions,         \* Room.sessions of the room registered under a name
    jmsg,             \* handleJoin's msg (its Room and SessionID)
    rmsg,             \* relay's msg
    rroom,            \* relay's local `room` pointer
    rpeer,            \* relay's local `peer`
    calls,            \* the sendMessage calls of the latest handler step
    panicked,         \* a goroutine panicked (send on closed channel)
    fatal,            \* the runtime aborted the process (concurrent map access)
    stalled,          \* environment: connections whose transport takes no frame
    usedRooms,        \* environment: how many room names clients have used
    usedSessions      \* environment: how many session ids clients have used

vars == <<pc, room, sessionID, disconnectedAt, disconnectTimer, send, closed,
          mu, rooms, peers, sessions, jmsg, rmsg, rroom, rpeer, calls, panicked,
          fatal, stalled, usedRooms, usedSessions>>

clientVars == <<room, sessionID, disconnectedAt, disconnectTimer>>
hubVars    == <<rooms, peers, sessions>>
relayVars  == <<rmsg, rroom, rpeer>>
crashVars  == <<panicked, fatal>>
envVars    == <<stalled, usedRooms, usedSessions>>

\* ---------------------------------------------------------- SignalMessage
EmptyMsg ==
    [type |-> "", room |-> "", clientId |-> 0, fromId |-> 0, targetId |-> 0,
     offerer |-> FALSE, status |-> "", error |-> ""]

ErrorMsg(text)   == [EmptyMsg EXCEPT !.type = "error", !.error = text]
\* Variant: the acknowledgment does not carry the connection's identity.
JoinedMsgAnonymous(r, id) == [EmptyMsg EXCEPT !.type = "joined", !.room = r]
JoinedMsg(r, id) == [EmptyMsg EXCEPT !.type = "joined", !.room = r, !.clientId = id]
WaitingMsg       == [EmptyMsg EXCEPT !.type = "waiting", !.status = "waiting"]
PeerJoinedMsg(id, off) ==
    [EmptyMsg EXCEPT !.type = "peer-joined", !.clientId = id, !.offerer = off]
PeerLeftMsg(id)  == [EmptyMsg EXCEPT !.type = "peer-left", !.clientId = id]

NoSessions == [s \in SessionIds |-> 0]

\* ------------------------------------------------------ Client.sendMessage
\* select { case c.send <- msg: default: } on an open channel: append when
\* the buffer has room, drop otherwise.
\* Variant: the buffer has no capacity limit.
sendMessageUnbounded(q, c, msg) == [q EXCEPT ![c] = Append(@, msg)]
sendMessage(q, c, msg) ==
    IF Len(q[c]) < SendCap THEN [q EXCEPT ![c] = Append(@, msg)] ELSE q

\* A run of sendMessage calls, in order, each <<recipient, message>>.  A send
\* on a closed channel panics: the calls after it are not made.  The result
\* is the queues, whether a call panicked, and the calls that were made.
RECURSIVE deliverFrom(_, _, _)
deliverFrom(q, list, i) ==
    IF i > Len(list) THEN [send |-> q, panic |-> FALSE, calls |-> list]
    ELSE IF closed[list[i][1]]
         THEN [send |-> q, panic |-> TRUE, calls |-> SubSeq(list, 1, i)]
         ELSE deliverFrom(sendMessage(q, list[i][1], list[i][2]), list, i + 1)

deliver(q, list) == deliverFrom(q, list, 1)

\* Variant: a peer in its grace period counts as connected.
otherPeerAny(ps, excludeID) == {p \in ps : p # excludeID}
\* ---------------------------------------------------- Room.otherConnectedPeer
\* The candidates of the map iteration: the first connected peer other than
\* excludeID in iteration order, which Go leaves unspecified.
otherConnectedPeer(ps, excludeID) ==
    {p \in ps : p # excludeID /\ ~disconnectedAt[p]}

\* Variant: Stop is not called.
stopTimerSkipped(t, c) == t
\* time.Timer.Stop: prevents the callback only if it has not started.
stopTimer(t, c) ==
    IF c # 0 /\ t[c] = "armed" THEN [t EXCEPT ![c] = "stopped"] ELSE t

\* ------------------------------------------------------------ environment
\* The process runs until the runtime aborts it.
Alive == ~fatal

\* writeLoop touches nothing but its own queue, so its steps commute with
\* every other step unless the queue is full.  Transports are therefore of
\* two kinds: a healthy one takes each frame before the next frame is read
\* from any connection, a stalled one takes none and its queue is the one
\* that can fill up.
Drained == \A c \in Clients \ stalled : send[c] = <<>>

\* Connections that have not sent a frame yet are interchangeable: they send
\* their first frame in index order.
fresh(c) == c \notin stalled /\ pc[c] = "read" /\ room[c] = "" /\ send[c] = <<>>
inOrder(c) == fresh(c) => \A d \in Clients : d < c => ~fresh(d)

Ready(c) == Alive /\ Drained /\ inOrder(c)

\* ------------------------------------------------------------------ Init
\* newHub (lines 344-348), and handleWS (lines 474-481) has accepted n
\* connections, none of which has sent a frame: each Client has its identity,
\* an empty open queue, no room, no session, no timer.
InitHub(n) ==
    /\ pc = [c \in Clients |-> IF c <= n THEN "read" ELSE "idle"]
    /\ room = [c \in Clients |-> ""]
    /\ sessionID = [c \in Clients |-> ""]
    /\ disconnectedAt = [c \in Clients |-> FALSE]
    /\ disconnectTimer = [c \in Clients |-> "nil"]
    /\ send = [c \in Clients |-> <<>>]
    /\ closed = [c \in Clients |-> FALSE]
    /\ mu = <<>>
    /\ rooms = {}
    /\ peers = [r \in RoomNames |-> {}]
    /\ sessions = [r \in RoomNames |-> NoSessions]
    /\ jmsg = [c \in Clients |-> [room |-> "", sessionId |-> ""]]
    /\ rmsg = [c \in Clients |-> EmptyMsg]
    /\ rroom = [c \in Clients |-> ""]
    /\ rpeer = [c \in Clients |-> 0]
    /\ calls = <<>>
    /\ panicked = FALSE
    /\ fatal = FALSE
    /\ usedRooms = 0
    /\ usedSessions = 0

\* What a panic in the body of readLoop does to the goroutine: it unwinds
\* into the deferred function (handleDisconnect, then close).
unwind(c, p) == [pc EXCEPT ![c] = IF p THEN "defer" ELSE "read"]

\* Variant: a frame before the join is answered like a malformed join.
mustJoinReplyAsInvalid(c) == <<<<c, ErrorMsg("room is required")>>>>
\* Line 514: the reply to a frame other than join from an unbound connection.
mustJoinReply(c) == <<<<c, ErrorMsg("must join first")>>>>

\* ------------------------------------------------- Client.readLoop, unbound
\* Lines 512-516: a frame other than join from a connection with c.room = "".
readLoopMustJoin(c) ==
    /\ Ready(c)
    /\ pc[c] = "read"
    /\ room[c] = ""
    /\ LET out == deliver(send, mustJoinReply(c)) IN
        /\ send' = out.send
        /\ calls' = out.calls
        /\ panicked' = (panicked \/ out.panic)
        /\ pc' = unwind(c, out.panic)
    /\ UNCHANGED <<clientVars, closed, mu, hubVars, jmsg, relayVars, fatal,
                   envVars>>

\* ----------------------------------------- Hub.handleJoin, lines 363-370
\* Variant: the session identity is validated before the room name.
joinErrorSessionFirst(r, s) ==
    IF s = "" THEN "sessionId is required"
    ELSE IF r = "" THEN "room is required"
    ELSE ""
\* The validation of a join frame: the error text, "" when it is valid.
joinError(r, s) ==
    IF r = "" THEN "room is required"
    ELSE IF s = "" THEN "sessionId is required"
    ELSE ""

\* A join frame that fails validation, before the lock is taken.
handleJoinInvalid(c, r, s) ==
    /\ Ready(c)
    /\ pc[c] = "read"
    /\ room[c] = ""
    /\ joinError(r, s) # ""
    /\ LET out == deliver(send, <<<<c, ErrorMsg(joinError(r, s))>>>>) IN
        /\ send' = out.send
        /\ calls' = out.calls
        /\ panicked' = (panicked \/ out.panic)
        /\ pc' = unwind(c, out.panic)
    /\ UNCHANGED <<clientVars, closed, mu, hubVars, jmsg, relayVars, fatal,
                   envVars>>

\* The names a join may carry: room names and session ids are opaque to the
\* server (compared for equality only), so clients take fresh ones in order.
joinRooms    == {RoomSeq[i] : i \in 1..(IF usedRooms < Len(RoomSeq)
                                        THEN usedRooms + 1 ELSE usedRooms)}
joinSessions == {SessionSeq[i] : i \in 1..(IF usedSessions < Len(SessionSeq)
                                           THEN usedSessions + 1 ELSE usedSessions)}
indexOf(seq, x) == CHOOSE i \in 1..Len(seq) : seq[i] = x
noteUsed(r, s) ==
    /\ usedRooms' = IF indexOf(RoomSeq, r) > usedRooms
                    THEN indexOf(RoomSeq, r) ELSE usedRooms
    /\ usedSessions' = IF indexOf(SessionSeq, s) > usedSessions
                       THEN indexOf(SessionSeq, s) ELSE usedSessions

\* Variant: the session index is not consulted.
existingRecordNone(r, s) == 0
\* Variant: only a record in its grace period counts as the session's record.
existingRecordInGrace(r, s) ==
    IF sessions[r][s] # 0 /\ ~disconnectedAt[sessions[r][s]] THEN 0 ELSE sessions[r][s]
\* Line 377: the record registered under the joining session, 0 when none.
existingRecord(r, s) == sessions[r][s]

\* Variant: the capacity test admits a third connected occupant.
roomFullAboveTwo(connectedCount) == connectedCount > 2
\* Line 392: the capacity test on the connected occupants.
roomFull(connectedCount) == connectedCount >= 2

\* Variant: no record is ever evicted to make room.
mustEvictNever(connectedCount, len) == FALSE
\* Line 397: a record must go to make room for the joiner.
mustEvict(connectedCount, len) == connectedCount < 2 /\ len >= 2

\* ----------------------------------------- Hub.handleJoin, lines 372-408
\* Lock, getOrCreateRoom, evict the record of the same session, count the
\* connected occupants; "room full" returns (and unlocks) here, otherwise a
\* disconnected record is evicted when two records remain, and the handler
\* goes on to register c with the lock still held.
handleJoinBegin(c, r, s) ==
    /\ Ready(c)
    /\ pc[c] = "read"
    /\ room[c] = ""
    /\ r \in joinRooms /\ s \in joinSessions
    /\ joinError(r, s) = ""
    /\ mu = <<>>
    /\ LET existing == existingRecord(r, s)
           peers1 == IF existing # 0 THEN peers[r] \ {existing} ELSE peers[r]
           sess1  == IF existing # 0
                     THEN [sessions[r] EXCEPT ![sessionID[existing]] = 0]
                     ELSE sessions[r]
           timer1 == stopTimer(disconnectTimer, existing)
           connectedCount == Cardinality({p \in peers1 : ~disconnectedAt[p]})
           gone == {p \in peers1 : disconnectedAt[p]}
       IN
        /\ rooms' = rooms \cup {r}
        /\ IF roomFull(connectedCount)
           THEN LET out == deliver(send, <<<<c, ErrorMsg("room full")>>>>) IN
                /\ send' = out.send
                /\ calls' = out.calls
                /\ panicked' = (panicked \/ out.panic)
                /\ pc' = unwind(c, out.panic)
                /\ peers' = [peers EXCEPT ![r] = peers1]
                /\ sessions' = [sessions EXCEPT ![r] = sess1]
                /\ disconnectTimer' = timer1
                /\ UNCHANGED <<mu, jmsg>>
           ELSE /\ IF mustEvict(connectedCount, Cardinality(peers1)) /\ gone # {}
                   THEN \E victim \in gone :
                        /\ peers' = [peers EXCEPT ![r] = peers1 \ {victim}]
                        /\ sessions' = [sessions EXCEPT
                               ![r] = [sess1 EXCEPT ![sessionID[victim]] = 0]]
                        /\ disconnectTimer' = stopTimer(timer1, victim)
                   ELSE /\ peers' = [peers EXCEPT ![r] = peers1]
                        /\ sessions' = [sessions EXCEPT ![r] = sess1]
                        /\ disconnectTimer' = timer1
                /\ mu' = <<"join", c>>
                /\ jmsg' = [jmsg EXCEPT ![c] = [room |-> r, sessionId |-> s]]
                /\ pc' = [pc EXCEPT ![c] = "joinRegister"]
                /\ calls' = <<>>
                /\ UNCHANGED <<send, panicked>>
    /\ noteUsed(r, s)
    /\ UNCHANGED <<room, sessionID, disconnectedAt, closed, relayVars, fatal,
                   stalled>>

\* Variant: the occupant that was there first is told to offer.
pairingFirstOffers(other, c) ==
    << <<other, PeerJoinedMsg(c, TRUE)>>, <<c, PeerJoinedMsg(other, FALSE)>> >>
\* Lines 426-435: the two peer-joined notices of a pairing, in call order.
pairing(other, c) ==
    << <<other, PeerJoinedMsg(c, FALSE)>>, <<c, PeerJoinedMsg(other, TRUE)>> >>

\* Variant: the peer is told to wait before it is told who left.
leavingWaitFirst(other, c) ==
    << <<other, WaitingMsg>>, <<other, PeerLeftMsg(c)>> >>
\* Lines 555-558: the two notices to the peer of a disconnecting connection.
leaving(other, c) ==
    << <<other, PeerLeftMsg(c)>>, <<other, WaitingMsg>> >>

\* ----------------------------------------- Hub.handleJoin, lines 410-437
\* Bind c, acknowledge, register under both indices, pair with the other
\* connected occupant if there is one, unlock (deferred).
handleJoinRegister(c) ==
    /\ Alive
    /\ pc[c] = "joinRegister"
    /\ mu = <<"join", c>>
    /\ LET r == jmsg[c].room
           s == jmsg[c].sessionId
           others == otherConnectedPeer(peers[r] \cup {c}, c)
       IN
       \E other \in (IF others = {} THEN {0} ELSE others) :
       LET out == deliver(send,
                    <<<<c, JoinedMsg(r, c)>>>> \o
                    (IF other = 0
                     THEN <<<<c, WaitingMsg>>>>
                     ELSE pairing(other, c)))
           registered == ~out.panic \/ Len(out.calls) > 1
       IN
        /\ room' = [room EXCEPT ![c] = r]
        /\ sessionID' = [sessionID EXCEPT ![c] = s]
        /\ peers' = IF registered THEN [peers EXCEPT ![r] = @ \cup {c}] ELSE peers
        /\ sessions' = IF registered
                       THEN [sessions EXCEPT ![r] = [@ EXCEPT ![s] = c]]
                       ELSE sessions
        /\ send' = out.send
        /\ calls' = out.calls
        /\ panicked' = (panicked \/ out.panic)
        /\ pc' = unwind(c, out.panic)
    /\ mu' = <<>>
    /\ UNCHANGED <<disconnectedAt, disconnectTimer, closed, rooms, jmsg,
                   relayVars, fatal, envVars>>

\* ------------------------------------------------- Client.readLoop, bound
\* Lines 521-524: a frame of a kind other than offer / answer / ice from a
\* bound connection (a second join included) falls through the switch.
readLoopIgnore(c) ==
    /\ Ready(c)
    /\ pc[c] = "read"
    /\ room[c] # ""
    /\ calls' = <<>>
    /\ UNCHANGED <<pc, clientVars, send, closed, mu, hubVars, jmsg, relayVars,
                   crashVars, envVars>>

\* The relay's locals once it has returned.
relayDone(c) ==
    /\ rmsg' = [rmsg EXCEPT ![c] = EmptyMsg]
    /\ rroom' = [rroom EXCEPT ![c] = ""]
    /\ rpeer' = [rpeer EXCEPT ![c] = 0]

\* Variant: the target is looked up among the records of every room.
roomPeersHubWide(c) == UNION {peers[r] : r \in rooms}
\* What relay reads through its `room` pointer.
roomPeers(c) == IF rroom[c] = Detached THEN {} ELSE peers[rroom[c]]

RelayPcs == {"relayOther", "relayPeer", "relaySend"}

\* Variant: the relay trusts the fromId the client sent.
stampTrusting(msg, c) == msg
\* Line 447: msg.FromID = c.id.
stamp(msg, c) == [msg EXCEPT !.fromId = c]

\* ---------------------------------------------- Hub.relay, lines 440-447
\* The room pointer is fetched under the lock, the lock is released, and
\* msg.FromID is overwritten with the sender's identity.  (Environment: one
\* relay frame is in flight at a time.)
relayBegin(c, t, target, from) ==
    /\ Ready(c)
    /\ pc[c] = "read"
    /\ room[c] # ""
    /\ \A d \in Clients : pc[d] \notin RelayPcs
    /\ mu = <<>>
    /\ IF room[c] \notin rooms
       THEN UNCHANGED <<pc, relayVars>>
       ELSE /\ rroom' = [rroom EXCEPT ![c] = room[c]]
            /\ rmsg' = [rmsg EXCEPT ![c] =
                   stamp([EmptyMsg EXCEPT !.type = t, !.targetId = target,
                                          !.fromId = from], c)]
            /\ pc' = [pc EXCEPT ![c] =
                   IF target = 0 THEN "relayOther" ELSE "relayPeer"]
            /\ UNCHANGED rpeer
    /\ calls' = <<>>
    /\ UNCHANGED <<clientVars, send, closed, mu, hubVars, jmsg, crashVars,
                   envVars>>

\* ---------------------------------------------- Hub.relay, lines 449-456
\* No target given: the other connected peer, read without the lock.
relayOther(c) ==
    /\ Alive /\ Drained
    /\ pc[c] = "relayOther"
    /\ LET others == otherConnectedPeer(roomPeers(c), c) IN
       IF others = {}
       THEN /\ pc' = [pc EXCEPT ![c] = "read"]
            /\ relayDone(c)
       ELSE \E other \in others :
            /\ rmsg' = [rmsg EXCEPT ![c].targetId = other]
            /\ pc' = [pc EXCEPT ![c] = "relayPeer"]
            /\ UNCHANGED <<rroom, rpeer>>
    /\ calls' = <<>>
    /\ UNCHANGED <<clientVars, send, closed, mu, hubVars, jmsg, crashVars,
                   envVars>>

\* ---------------------------------------------------- Hub.relay, line 457
\* peer := room.peers[msg.TargetID], read without the lock.
relayPeer(c) ==
    /\ Alive /\ Drained
    /\ pc[c] = "relayPeer"
    /\ IF rmsg[c].targetId \in roomPeers(c)
       THEN /\ rpeer' = [rpeer EXCEPT ![c] = rmsg[c].targetId]
            /\ pc' = [pc EXCEPT ![c] = "relaySend"]
            /\ UNCHANGED <<rmsg, rroom>>
       ELSE /\ pc' = [pc EXCEPT ![c] = "read"]
            /\ relayDone(c)
    /\ calls' = <<>>
    /\ UNCHANGED <<clientVars, send, closed, mu, hubVars, jmsg, crashVars,
                   envVars>>

\* ---------------------------------------------------- Hub.relay, line 458
\* peer.sendMessage(msg), without the lock.
relaySend(c) ==
    /\ Alive /\ Drained
    /\ pc[c] = "relaySend"
    /\ LET out == deliver(send, <<<<rpeer[c], rmsg[c]>>>>) IN
        /\ send' = out.send
        /\ calls' = out.calls
        /\ panicked' = (panicked \/ out.panic)
        /\ pc' = unwind(c, out.panic)
    /\ relayDone(c)
    /\ UNCHANGED <<clientVars, closed, mu, hubVars, jmsg, fatal, envVars>>

\* A goroutine is about to write the peers map of room r under h.mu: a
\* handleJoin about to register, or a finalizeDisconnect about to delete.
mapWriter(r) ==
    \/ \E d \in Clients : mu = <<"join", d>> /\ jmsg[d].room = r
    \/ \E d \in Clients :
        /\ disconnectTimer[d] = "fired" /\ mu = <<>>
        /\ room[d] = r /\ r \in rooms /\ d \in peers[r] /\ disconnectedAt[d]

\* ------------------------------------------- Hub.relay, lines 450 and 457
\* The unlocked map reads of relay overlap a map write of the lock holder:
\* a data race, which the runtime may answer with "fatal error: concurrent
\* map read and map write" (the other outcome is relayOther / relayPeer).
relayRace(c) ==
    /\ Alive /\ Drained
    /\ pc[c] \in {"relayOther", "relayPeer"}
    /\ rroom[c] # Detached
    /\ mapWriter(rroom[c])
    /\ fatal' = TRUE
    /\ calls' = <<>>
    /\ UNCHANGED <<pc, clientVars, send, closed, mu, hubVars, jmsg, relayVars,
                   panicked, envVars>>

\* Variant: only the room is looked up, not the record.
notRecordedRoomOnly(c) == room[c] \notin rooms
\* Lines 540-548: the early returns of handleDisconnect: no room under
\* c.room, or no record of c under c.id.
notRecorded(c) == room[c] \notin rooms \/ c \notin peers[room[c]]

\* ------------------------------------------------------ Hub.handleDisconnect
\* readLoop's deferred function, first half: ReadJSON failed (pc = "read")
\* or the loop body panicked (pc = "defer").
handleDisconnect(c) ==
    /\ Ready(c)
    /\ pc[c] \in {"read", "defer"}
    /\ mu = <<>>
    /\ IF notRecorded(c)
       THEN /\ pc' = [pc EXCEPT ![c] = "close"]
            /\ calls' = <<>>
            /\ UNCHANGED <<disconnectedAt, disconnectTimer, send, panicked>>
       ELSE /\ disconnectedAt' = [disconnectedAt EXCEPT ![c] = TRUE]
            /\ LET others == otherConnectedPeer(peers[room[c]], c)
                   stopped == IF disconnectTimer[c] # "nil"
                              THEN stopTimer(disconnectTimer, c)
                              ELSE disconnectTimer
               IN
               IF others = {}
               THEN /\ disconnectTimer' = [stopped EXCEPT ![c] = "armed"]
                    /\ pc' = [pc EXCEPT ![c] = "close"]
                    /\ calls' = <<>>
                    /\ UNCHANGED <<send, panicked>>
               ELSE \E other \in others :
                    LET out == deliver(send, leaving(other, c)) IN
                    /\ send' = out.send
                    /\ calls' = out.calls
                    /\ panicked' = (panicked \/ out.panic)
                    /\ disconnectTimer' =
                           IF out.panic THEN stopped
                           ELSE [stopped EXCEPT ![c] = "armed"]
                    /\ pc' = [pc EXCEPT ![c] =
                           IF out.panic THEN "dead" ELSE "close"]
    /\ UNCHANGED <<room, sessionID, closed, mu, hubVars, jmsg, relayVars,
                   fatal, envVars>>

\* ------------------------------------------- Client.readLoop, line 503
\* readLoop's deferred function, second half: close(c.send).
closeSend(c) ==
    /\ Alive /\ Drained
    /\ pc[c] = "close"
    /\ closed' = [closed EXCEPT ![c] = TRUE]
    /\ pc' = [pc EXCEPT ![c] = "closed"]
    /\ calls' = <<>>
    /\ UNCHANGED <<clientVars, send, mu, hubVars, jmsg, relayVars, crashVars,
                   envVars>>

\* ------------------------------------------------------- Client.writeLoop
\* Lines 492-496: one message leaves the queue for the transport.
writeLoop(c) ==
    /\ Alive
    /\ c \notin stalled
    /\ pc[c] # "idle"
    /\ send[c] # <<>>
    /\ send' = [send EXCEPT ![c] = Tail(@)]
    /\ calls' = <<>>
    /\ UNCHANGED <<pc, clientVars, closed, mu, hubVars, jmsg, relayVars,
                   crashVars, envVars>>

\* ------------------------------------- Hub.handleDisconnect, lines 560-562
\* The grace period elapses: the runtime starts the callback goroutine.
timerFire(c) ==
    /\ Alive
    /\ disconnectTimer[c] = "armed"
    /\ disconnectTimer' = [disconnectTimer EXCEPT ![c] = "fired"]
    /\ calls' = <<>>
    /\ UNCHANGED <<pc, room, sessionID, disconnectedAt, send, closed, mu,
                   hubVars, jmsg, relayVars, crashVars, envVars>>

\* Variant: the callback does not look for the record under the client id.
staleFinalizeNoRecordCheck(roomID, clientID, sid) ==
    \/ roomID \notin rooms
    \/ sessionID[clientID] # sid
    \/ ~disconnectedAt[clientID]
\* Variant: the callback always returns early.
staleFinalizeAlways(roomID, clientID, sid) == TRUE
\* Variant: the callback returns early only when the room is gone.
staleFinalizeRoomOnly(roomID, clientID, sid) == roomID \notin rooms
\* ----------------------------------- Hub.finalizeDisconnect, lines 569-580
\* The early returns: no such room, no such record, a record of another
\* session, or a record that is connected.
staleFinalize(roomID, clientID, sid) ==
    \/ roomID \notin rooms
    \/ clientID \notin peers[roomID]
    \/ sessionID[clientID] # sid
    \/ ~disconnectedAt[clientID]

\* Variant: a room is kept when its last record is removed.
roomEmptyNever(left) == FALSE
\* Line 585: the test len(room.peers) == 0 after the record was deleted.
roomEmpty(left) == left = {}

\* ----------------------------------------------- Hub.finalizeDisconnect
\* The callback's critical section, called as
\* finalizeDisconnect(c.room, c.id, c.sessionID).  The timer ends "returned"
\* when the callback returned early and "removed" when it deleted the record.
finalizeDisconnect(c) ==
    /\ Alive
    /\ disconnectTimer[c] = "fired"
    /\ mu = <<>>
    /\ LET roomID == room[c]
           sid == sessionID[c]
       IN
       IF staleFinalize(roomID, c, sid)
       THEN /\ disconnectTimer' = [disconnectTimer EXCEPT ![c] = "returned"]
            /\ UNCHANGED <<hubVars, rroom>>
       ELSE LET left == peers[roomID] \ {c} IN
            /\ disconnectTimer' = [disconnectTimer EXCEPT ![c] = "removed"]
            /\ peers' = [peers EXCEPT ![roomID] = left]
            /\ IF roomEmpty(left)
               THEN /\ rooms' = rooms \ {roomID}
                    /\ sessions' = [sessions EXCEPT ![roomID] = NoSessions]
                    /\ rroom' = [d \in Clients |->
                           IF rroom[d] = roomID THEN Detached ELSE rroom[d]]
               ELSE /\ sessions' = [sessions EXCEPT ![roomID][sid] = 0]
                    /\ UNCHANGED <<rooms, rroom>>
    /\ calls' = <<>>
    /\ UNCHANGED <<pc, room, sessionID, disconnectedAt, send, closed, mu, jmsg,
                   rmsg, rpeer, crashVars, envVars>>

\* -------------------------------------------------------- specifications
\* The registry: joins, errors, disconnects and grace timers.
Registry ==
    \/ \E c \in Clients : readLoopMustJoin(c)
    \/ \E c \in Clients, r \in RoomNames \cup {""}, s \in SessionIds \cup {""} :
           handleJoinInvalid(c, r, s)
    \/ \E c \in Clients, r \in RoomNames, s \in SessionIds : handleJoinBegin(c, r, s)
    \/ \E c \in Clients : handleJoinRegister(c)
    \/ \E c \in Clients : readLoopIgnore(c)
    \/ \E c \in Clients : handleDisconnect(c)
    \/ \E c \in Clients : closeSend(c)
    \/ \E c \in Clients : writeLoop(c)
    \/ \E c \in Clients : timerFire(c)
    \/ \E c \in Clients : finalizeDisconnect(c)

Relay ==
    \/ \E c \in Clients, t \in RelayTypes, target \in TargetIds, from \in FromIds :
           relayBegin(c, t, target, from)
    \/ \E c \in Clients : relayOther(c)
    \/ \E c \in Clients : relayPeer(c)
    \/ \E c \in Clients : relaySend(c)
    \/ \E c \in Clients : relayRace(c)

Init == InitHub(NClients) /\ stalled = {}
Next == Registry
Spec == Init /\ [][Next]_vars

InitRelay == InitHub(RelayClients) /\ stalled = {}
NextRelay == Registry \/ Relay
SpecRelay == InitRelay /\ [][NextRelay]_vars

\* Scheduling: the runtime fires an armed timer and runs its callback, a
\* goroutine blocked on h.mu gets it once it is free, a handler holding h.mu
\* runs to its deferred Unlock, and a healthy transport takes frames.
Fairness ==
    \A c \in Clients :
        /\ WF_vars(timerFire(c))
        /\ WF_vars(finalizeDisconnect(c))
        /\ WF_vars(handleJoinRegister(c))
        /\ WF_vars(writeLoop(c))
SpecFair == Init /\ [][Next]_vars /\ Fairness

\* A connection whose transport has stalled keeps sending frames before it
\* joins, so its queue fills up with "must join first" errors.
InitFlood == InitHub(FloodClients) /\ stalled = {1}
NextFlood ==
    \/ \E c \in Clients : readLoopMustJoin(c)
    \/ \E c \in Clients, r \in RoomNames, s \in SessionIds : handleJoinBegin(c, r, s)
    \/ \E c \in Clients : handleJoinRegister(c)
    \/ \E c \in Clients : handleDisconnect(c)
    \/ \E c \in Clients : closeSend(c)
    \/ \E c \in Clients : writeLoop(c)
    \/ \E c \in Clients : timerFire(c)
    \/ \E c \in Clients : finalizeDisconnect(c)
SpecFlood == InitFlood /\ [][NextFlood]_vars

\* ================================================================ claims
Connected(r) == {p \in peers[r] : ~disconnectedAt[p]}

\* C1: at every moment every room holds at most two occupant records, and
\* so at most two connected occupants, whatever joins, disconnects and
\* finalizes have run.
C1_AtMostTwoOccupants ==
    \A r \in RoomNames :
        Cardinality(peers[r]) <= 2 /\ Cardinality(Connected(r)) <= 2

\* A room holds two records after a third connection joined it by evicting a
\* record in its grace period.
C1_Witness ==
    \E r \in rooms : \E c \in Clients \ peers[r] :
        /\ Cardinality(peers[r]) = 2
        /\ room[c] = r
        /\ disconnectTimer[c] = "stopped"

\* C2: a join to room r with a session that already has a record there is
\* never answered "room full": the old record leaves both indices, and once
\* the join has registered the session index maps the session to the joiner
\* and no other record of the room carries that session.
C2_SameSessionRejoinReplaces ==
    [][\A c \in Clients :
        /\ \A r \in RoomNames, s \in SessionIds :
              handleJoinBegin(c, r, s) /\ sessions[r][s] # 0 =>
                /\ pc'[c] = "joinRegister"
                /\ jmsg'[c] = [room |-> r, sessionId |-> s]
                /\ sessions[r][s] \notin peers'[r]
                /\ \A t \in SessionIds : sessions'[r][t] # sessions[r][s]
        /\ handleJoinRegister(c) =>
              LET r == jmsg[c].room
                  s == jmsg[c].sessionId
              IN /\ c \in peers'[r]
                 /\ sessions'[r][s] = c
                 /\ \A p \in peers'[r] \ {c} : sessionID'[p] # s
      ]_vars

\* A connection that is still open has been replaced by a newer connection
\* of its session.
C2_Witness ==
    \E c \in Clients, x \in Clients :
        /\ x # c /\ pc[x] = "read"
        /\ room[x] # "" /\ room[x] = room[c] /\ sessionID[x] = sessionID[c]
        /\ x \notin peers[room[c]] /\ c \in peers[room[c]]
        /\ sessions[room[c]][sessionID[c]] = c

\* The session of x's record is now registered to another connection.
Rejoined(x) ==
    \E y \in Clients \ {x} :
        /\ room[x] \in rooms
        /\ sessionID[x] \in SessionIds
        /\ y \in peers[room[x]]
        /\ sessionID[y] = sessionID[x]
        /\ sessions[room[x]][sessionID[x]] = y

\* C3: when x's grace timer callback runs after another connection has
\* rejoined x's room under x's session, it removes nothing: the registry,
\* the room's records and its session index are unchanged.
C3_StaleFinalizeRemovesNothing ==
    [][\A x \in Clients :
        finalizeDisconnect(x) /\ Rejoined(x) => UNCHANGED <<rooms, peers, sessions>>
      ]_vars

\* x's callback has run and returned early, and the rejoined record is there.
C3_Witness ==
    \E x \in Clients : disconnectTimer[x] = "returned" /\ Rejoined(x)

\* c's record is in its room, marked disconnected.
InGrace(c) ==
    room[c] \in rooms /\ c \in peers[room[c]] /\ disconnectedAt[c]

\* c is in neither index of its room.
Removed(c) ==
    /\ room[c] \in RoomNames
    /\ c \notin peers[room[c]]
    /\ sessions[room[c]][sessionID[c]] # c

\* Room r is registered and every record of it is marked disconnected.
AllGone(r) ==
    r \in rooms /\ peers[r] # {} /\ Connected(r) = {}

\* C4: under fairness of the grace timer, every record that is marked
\* disconnected is eventually out of both indices of its room (removed by
\* its callback when its session does not rejoin), and a room whose records
\* are all disconnected is eventually deleted unless a connection joins it.
C4_DisconnectedEventuallyRemoved ==
    /\ \A c \in Clients : [](InGrace(c) => <>Removed(c))
    /\ \A r \in RoomNames : [](AllGone(r) => <>(r \notin rooms \/ Connected(r) # {}))

\* A record was removed by its own callback, and its room with it.
C4_Witness ==
    \E c \in Clients :
        /\ disconnectTimer[c] = "removed" /\ disconnectedAt[c]
        /\ room[c] \notin rooms /\ Removed(c)

\* A join of room r holds the hub lock.
JoinInProgress(r) == \E d \in Clients : mu = <<"join", d>> /\ jmsg[d].room = r

\* C5: no relay reads a room's occupant set (the lookup of the other
\* connected peer, the lookup of the target) while a join of that room is in
\* progress.
C5_NoRelayReadDuringJoin ==
    [][\A c \in Clients :
        relayOther(c) \/ relayPeer(c) => ~JoinInProgress(rroom[c])
      ]_vars

\* C6: no goroutine ever panics: no message is ever sent on an outbound
\* queue after the end of its connection's readLoop has closed it.
C6_NeverPanics == ~panicked

\* The peer-joined notices among a handler's sendMessage calls.
PeerJoinedCalls(cs) == SelectSeq(cs, LAMBDA x : x[2].type = "peer-joined")

\* What a queue holds after a message is offered to it.
Offered(q, m) == IF Len(q) < SendCap THEN Append(q, m) ELSE q

\* C7: a join that registers while another connected occupant is in the
\* room sends exactly two peer-joined notices: first to the occupant, naming
\* the joiner with offerer = false, then to the joiner, naming the occupant
\* with offerer = true; the occupant's notice is what its queue is offered.
C7_SecondJoinerOffers ==
    [][\A c \in Clients :
        handleJoinRegister(c) /\ otherConnectedPeer(peers[jmsg[c].room], c) # {} =>
          LET pj == PeerJoinedCalls(calls') IN
            /\ Len(pj) = 2
            /\ pj[1][1] \in otherConnectedPeer(peers[jmsg[c].room], c)
            /\ pj[1][2].clientId = c /\ pj[1][2].offerer = FALSE
            /\ pj[2][1] = c
            /\ pj[2][2].clientId = pj[1][1] /\ pj[2][2].offerer = TRUE
            /\ send'[pj[1][1]] = Offered(send[pj[1][1]], pj[1][2])
      ]_vars

\* A pairing has just been completed.
C7_Witness ==
    /\ Len(calls) = 3
    /\ calls[2][2].type = "peer-joined" /\ ~calls[2][2].offerer
    /\ calls[3][2].type = "peer-joined" /\ calls[3][2].offerer
    /\ calls[3][1] = calls[2][2].clientId /\ calls[2][1] = calls[3][2].clientId
    /\ calls[2][1] \in peers[room[calls[3][1]]]

\* c is an occupant of its room.
Occupant(c) == room[c] \in rooms /\ c \in peers[room[c]]

PeerLeft(c) == [EmptyMsg EXCEPT !.type = "peer-left", !.clientId = c]
Waiting == [EmptyMsg EXCEPT !.type = "waiting", !.status = "waiting"]

\* C8 as stated: when an occupant disconnects while another connected
\* occupant is in the room, peer-left and then waiting are placed in that
\* occupant's queue within the disconnect's critical section.
C8_PeerLeftThenWaitingQueued ==
    [][\A c \in Clients :
        handleDisconnect(c) /\ Occupant(c)
            /\ otherConnectedPeer(peers[room[c]], c) # {} =>
          \E o \in otherConnectedPeer(peers[room[c]], c) :
            send'[o] = send[o] \o <<PeerLeft(c), Waiting>>
      ]_vars

\* C8 amended: peer-left and then waiting are sent to the other connected
\* occupant within the disconnect's critical section, and each is placed in
\* its queue unless the queue already holds 16 messages, when it is dropped.
C8_PeerLeftThenWaitingUnlessFull ==
    [][\A c \in Clients :
        handleDisconnect(c) /\ Occupant(c)
            /\ otherConnectedPeer(peers[room[c]], c) # {} =>
          \E o \in otherConnectedPeer(peers[room[c]], c) :
            /\ calls' = << <<o, PeerLeft(c)>>, <<o, Waiting>> >>
            /\ send'[o] = Offered(Offered(send[o], PeerLeft(c)), Waiting)
            /\ mu = <<>> /\ mu' = <<>>
      ]_vars

\* A disconnect has just sent its two notices to a peer whose queue was full.
C8_Witness ==
    \E c \in Clients, o \in Clients :
        /\ calls = << <<o, PeerLeft(c)>>, <<o, Waiting>> >>
        /\ disconnectedAt[c] /\ ~disconnectedAt[o]
        /\ Len(send[o]) = SendCap
        /\ send[o][SendCap].type # "waiting"

\* Room r holds two connected occupants, neither of session s.
FullForSession(r, s) ==
    /\ Cardinality(Connected(r)) = 2
    /\ \A p \in Connected(r) : sessionID[p] # s

\* C9: a join of a third session to a room with two connected occupants
\* sends one error "room full", to the joiner only, and changes nothing
\* else: registry, records, session index, timers and the joiner's binding.
C9_RoomFullMutatesNothing ==
    [][\A c \in Clients, r \in RoomNames, s \in SessionIds :
        handleJoinBegin(c, r, s) /\ FullForSession(r, s) =>
          /\ Len(calls') = 1
          /\ calls'[1][1] = c
          /\ calls'[1][2] = [EmptyMsg EXCEPT !.type = "error", !.error = "room full"]
          /\ send' = [send EXCEPT ![c] = Offered(@, calls'[1][2])]
          /\ pc'[c] = "read"
          /\ UNCHANGED <<rooms, peers, sessions, disconnectTimer, disconnectedAt,
                         room, sessionID, mu>>
      ]_vars

\* A third session has just been refused by a room of two connected occupants.
C9_Witness ==
    \E c \in Clients, r \in rooms :
        /\ Len(calls) = 1 /\ calls[1][1] = c /\ calls[1][2].error = "room full"
        /\ room[c] = "" /\ sessionID[c] = ""
        /\ Cardinality(Connected(r)) = 2 /\ c \notin peers[r]

\* C10: a join with an empty room name, or else with an empty session
\* identity, sends one error ("room is required", "sessionId is required")
\* to the requester only and changes nothing else: no room is created, and
\* the registry, every room and the requester's binding stay as they were.
C10_InvalidJoinMutatesNothing ==
    [][\A c \in Clients, r \in RoomNames \cup {""}, s \in SessionIds \cup {""} :
        handleJoinInvalid(c, r, s) /\ (r = "" \/ s = "") =>
          /\ Len(calls') = 1
          /\ calls'[1][1] = c
          /\ calls'[1][2] = [EmptyMsg EXCEPT !.type = "error",
                 !.error = IF r = "" THEN "room is required"
                           ELSE "sessionId is required"]
          /\ send' = [send EXCEPT ![c] = Offered(@, calls'[1][2])]
          /\ pc'[c] = "read"
          /\ UNCHANGED <<rooms, peers, sessions, disconnectTimer, disconnectedAt,
                         room, sessionID, mu>>
      ]_vars

\* A join without a session identity has just been refused while a room exists.
C10_Witness ==
    \E c \in Clients :
        /\ Len(calls) = 1 /\ calls[1][1] = c
        /\ calls[1][2].error = "sessionId is required"
        /\ room[c] = "" /\ rooms # {}

\* The queues a step has appended to.
Grown == {d \in Clients : Len(send'[d]) > Len(send[d])}

\* C11: every message the relay delivers carries the sender's connection
\* identity as fromId, whatever fromId the client put in the frame: the
\* relay stamps it when it takes the frame, keeps it while it looks the
\* recipient up, and that is the message the recipient's queue receives.
C11_FromIdIsSender ==
    [][\A c \in Clients :
        /\ \A t \in RelayTypes, target \in TargetIds, from \in FromIds :
              relayBegin(c, t, target, from) /\ pc'[c] \in RelayPcs =>
                rmsg'[c].fromId = c /\ rmsg'[c].type = t
        /\ (relayOther(c) \/ relayPeer(c)) /\ pc'[c] \in RelayPcs =>
              rmsg'[c].fromId = c /\ rmsg'[c].type = rmsg[c].type
        /\ relaySend(c) =>
              \A d \in Grown :
                  /\ send'[d][Len(send'[d])].fromId = c
                  /\ send'[d][Len(send'[d])].type = rmsg[c].type
                  /\ rmsg[c].type \in RelayTypes
      ]_vars

\* A queue holds a relayed message stamped with its sender, connection 2,
\* an identity no client-supplied fromId of the model equals.
C11_Witness ==
    \E d \in Clients :
        /\ send[d] # <<>>
        /\ send[d][Len(send[d])].type \in RelayTypes
        /\ send[d][Len(send[d])].fromId = 2
        /\ 2 \notin FromIds

\* The occupants of the room c is bound to.
RoomOf(c) == IF room[c] \in rooms THEN peers[room[c]] ELSE {}

\* The connected occupants of c's room other than c.
OthersOf(c) == {p \in RoomOf(c) : p # c /\ ~disconnectedAt[p]}

\* C12: a relayed message that names a target is delivered to exactly the
\* occupant of the sender's room with that identity (to no one when there
\* is none), and one that names no target to exactly the other connected
\* occupant of the sender's room: the lookup picks that occupant, and the
\* send appends the message to its queue and to no other.
C12_DeliveredToExactlyTheRecipient ==
    [][\A c \in Clients :
        /\ relayOther(c) /\ OthersOf(c) # {} =>
              pc'[c] = "relayPeer" /\ rmsg'[c].targetId \in OthersOf(c)
        /\ relayPeer(c) =>
              IF rmsg[c].targetId \in RoomOf(c)
              THEN pc'[c] = "relaySend" /\ rpeer'[c] = rmsg[c].targetId
              ELSE pc'[c] = "read" /\ send' = send
        /\ relaySend(c) =>
              /\ rpeer[c] = rmsg[c].targetId
              /\ send' = [send EXCEPT ![rpeer[c]] = Append(@, rmsg[c])]
      ]_vars

\* A relay step that returns without sending: nothing is enqueued anywhere
\* and no registry, room or connection state changes.
Dropped(c) ==
    /\ pc'[c] = "read"
    /\ calls' = <<>>
    /\ UNCHANGED <<send, rooms, peers, sessions, room, sessionID,
                   disconnectedAt, disconnectTimer, closed, mu, panicked>>

\* C13: a relayed message with no resolvable recipient (the sender's room is
\* gone, or no target and no other connected occupant, or a target that is
\* not an occupant of the sender's room) is dropped silently.
C13_UnroutableDroppedSilently ==
    [][\A c \in Clients :
        /\ \A t \in RelayTypes, target \in TargetIds, from \in FromIds :
              relayBegin(c, t, target, from) /\ room[c] \notin rooms => Dropped(c)
        /\ relayOther(c) /\ OthersOf(c) = {} => Dropped(c)
        /\ relayPeer(c) /\ rmsg[c].targetId \notin RoomOf(c) => Dropped(c)
      ]_vars

\* A relay is looking up a target no connection has, in a room with occupants.
C13_Witness ==
    \E c \in Clients :
        /\ pc[c] = "relayPeer"
        /\ rmsg[c].targetId = NoSuchId
        /\ RoomOf(c) # {}

\* C14: a frame other than join from a connection that has not joined gets
\* one error "must join first", sent to that connection only; it stays
\* unbound and open and the registry is unchanged.  From a bound connection
\* only offer, answer and ice are relayed; any other frame is ignored: no
\* reply and no change of state.
C14_MustJoinFirstThenIgnore ==
    [][\A c \in Clients :
        /\ readLoopMustJoin(c) =>
              /\ room[c] = ""
              /\ Len(calls') = 1
              /\ calls'[1][1] = c
              /\ calls'[1][2] =
                     [EmptyMsg EXCEPT !.type = "error", !.error = "must join first"]
              /\ send' = [send EXCEPT ![c] = Offered(@, calls'[1][2])]
              /\ pc'[c] = "read" /\ room'[c] = "" /\ sessionID'[c] = ""
              /\ UNCHANGED <<rooms, peers, sessions, closed, mu>>
        /\ readLoopIgnore(c) =>
              /\ room[c] # ""
              /\ calls' = <<>>
              /\ UNCHANGED <<pc, room, sessionID, disconnectedAt, disconnectTimer,
                             send, closed, mu, rooms, peers, sessions>>
        /\ relaySend(c) => room[c] # "" /\ rmsg[c].type \in RelayTypes
      ]_vars

\* A connection that never joined has just been told to join first, while
\* another connection occupies a room.
C14_Witness ==
    \E c \in Clients :
        /\ Len(calls) = 1 /\ calls[1][1] = c
        /\ calls[1][2].error = "must join first"
        /\ room[c] = "" /\ pc[c] = "read"
        /\ rooms # {}

\* The connected occupants of room r other than c.
ConnectedOthers(r, c) == {p \in peers[r] : p # c /\ ~disconnectedAt[p]}

\* C15: a join that succeeds makes its sendMessage calls in this order: to
\* the joiner, joined with the room and the joiner's own connection id; then
\* either waiting to the joiner (no other connected occupant) or peer-joined
\* to that occupant naming the joiner followed by peer-joined to the joiner
\* naming the occupant.  Each queue is offered exactly these messages, and
\* the joiner ends up registered under both indices.
C15_JoinedThenWaitingOrPeerJoined ==
    [][\A c \in Clients :
        handleJoinRegister(c) =>
          LET r == jmsg[c].room
              s == jmsg[c].sessionId
              n == Len(calls')
          IN
            /\ n \in {2, 3}
            /\ calls'[1] = <<c, [EmptyMsg EXCEPT !.type = "joined", !.room = r,
                                                 !.clientId = c]>>
            /\ c \in peers'[r] /\ sessions'[r][s] = c
            /\ room'[c] = r /\ sessionID'[c] = s
            /\ IF ConnectedOthers(r, c) = {}
               THEN /\ n = 2
                    /\ calls'[2] = <<c, Waiting>>
                    /\ send' = [send EXCEPT
                          ![c] = Offered(Offered(@, calls'[1][2]), Waiting)]
               ELSE /\ n = 3
                    /\ calls'[2][1] \in ConnectedOthers(r, c)
                    /\ calls'[2][2].type = "peer-joined"
                    /\ calls'[2][2].clientId = c
                    /\ calls'[3][1] = c
                    /\ calls'[3][2].type = "peer-joined"
                    /\ calls'[3][2].clientId = calls'[2][1]
                    /\ send' = [send EXCEPT
                          ![c] = Offered(Offered(@, calls'[1][2]), calls'[3][2]),
                          ![calls'[2][1]] = Offered(@, calls'[2][2])]
      ]_vars

\* A session has rejoined on a new connection c while its former connection
\* x was in its grace period and its former peer p was still connected: p
\* has just been sent a peer-joined naming c.
C15_Witness ==
    \E c, x, p \in Clients :
        /\ c # x /\ c # p /\ x # p
        /\ sessionID[x] = sessionID[c] /\ room[x] = room[c] /\ room[p] = room[c]
        /\ disconnectedAt[x] /\ disconnectTimer[x] = "stopped"
        /\ ~disconnectedAt[p]
        /\ room[c] \in rooms /\ peers[room[c]] = {c, p}
        /\ Len(calls) = 3
        /\ calls[1][2].type = "joined" /\ calls[1][2].clientId = c
        /\ calls[2] = <<p, [EmptyMsg EXCEPT !.type = "peer-joined", !.clientId = c]>>

\* C16: no room holds two occupant records with the same session identity,
\* connected or not, and the session index of a room names an occupant
\* record of that session; while a join is between its eviction and its
\* registration, the room holds no record of the joining session at all.
C16_OneRecordPerSession ==
    /\ \A r \in rooms :
          /\ \A p, q \in peers[r] : p # q => sessionID[p] # sessionID[q]
          /\ \A p \in peers[r] : sessions[r][sessionID[p]] = p
    /\ \A c \in Clients :
          mu = <<"join", c>> =>
            /\ sessions[jmsg[c].room][jmsg[c].sessionId] = 0
            /\ \A p \in peers[jmsg[c].room] : sessionID[p] # jmsg[c].sessionId

\* A join is about to register a session whose former connection, still
\* open, has just been removed from a room that keeps another occupant.
C16_Witness ==
    \E c, x, p \in Clients :
        /\ mu = <<"join", c>>
        /\ x # c /\ x # p
        /\ room[x] = jmsg[c].room /\ sessionID[x] = jmsg[c].sessionId
        /\ ~disconnectedAt[x]
        /\ peers[jmsg[c].room] = {p}

\* C17: whenever the hub lock is free, every room of the registry has at
\* least one occupant record, and a name that is not in the registry has no
\* records and no session entries; while a join holds the lock, only the
\* room being joined can be empty (created, or emptied by the eviction, and
\* about to receive the joiner).
C17_NoEmptyRoom ==
    /\ mu = <<>> => \A r \in rooms : peers[r] # {}
    /\ \A c \in Clients :
          mu = <<"join", c>> => \A r \in rooms \ {jmsg[c].room} : peers[r] # {}
    /\ \A r \in RoomNames \ rooms : peers[r] = {} /\ sessions[r] = NoSessions

\* The last record of a room was removed by its grace timer and the room
\* was deleted with it, while another room is still occupied.
C17_Witness ==
    \E c \in Clients :
        /\ mu = <<>>
        /\ disconnectTimer[c] = "removed"
        /\ room[c] \in RoomNames \ rooms
        /\ rooms # {}

\* Room r holds two records, fewer than two of them connected, and none of
\* session s.
GraceSlot(r, s) ==
    /\ Cardinality(peers[r]) = 2
    /\ Cardinality(Connected(r)) < 2
    /\ sessions[r][s] = 0

\* v was evicted from room r by the step: it was a disconnected record, it
\* is out of both indices, and its timer is no longer pending.
Evicted(v, r) ==
    /\ v \in peers[r] /\ disconnectedAt[v]
    /\ peers'[r] = peers[r] \ {v}
    /\ sessions'[r] = [sessions[r] EXCEPT ![sessionID[v]] = 0]
    /\ disconnectTimer[v] \in {"armed", "fired"}
    /\ disconnectTimer'[v] =
          (IF disconnectTimer[v] = "armed" THEN "stopped" ELSE "fired")
    /\ \A p \in Clients \ {v} : disconnectTimer'[p] = disconnectTimer[p]

\* C18: a join of a room that holds two records, fewer than two connected,
\* by a session that has no record there is not refused: exactly one
\* disconnected record leaves both indices and its pending timer is stopped,
\* the join goes on holding the lock and registers the joiner, after which
\* the room holds at most two records; when the callback of a record that is
\* no longer in its room runs, the registry is unchanged.
C18_GraceSlotReclaimed ==
    [][\A c \in Clients :
        /\ \A r \in RoomNames, s \in SessionIds :
              handleJoinBegin(c, r, s) /\ GraceSlot(r, s) =>
                /\ \E v \in Clients : Evicted(v, r)
                /\ pc'[c] = "joinRegister" /\ mu' = <<"join", c>>
                /\ jmsg'[c] = [room |-> r, sessionId |-> s]
                /\ calls' = <<>>
        /\ handleJoinRegister(c) =>
              /\ c \in peers'[jmsg[c].room]
              /\ sessions'[jmsg[c].room][jmsg[c].sessionId] = c
              /\ Cardinality(peers'[jmsg[c].room]) <= 2
        /\ finalizeDisconnect(c) /\ room[c] \in rooms /\ c \notin peers[room[c]] =>
              UNCHANGED <<rooms, peers, sessions>>
      ]_vars

\* A disconnected record was evicted by a join of another session after its
\* timer had fired; its callback has since run and returned, and the room
\* holds the joiner and the other occupant.
C18_Witness ==
    \E c, v \in Clients :
        /\ c # v
        /\ room[v] = room[c] /\ room[c] \in rooms
        /\ sessionID[v] # sessionID[c]
        /\ disconnectedAt[v] /\ disconnectTimer[v] = "returned"
        /\ v \notin peers[room[c]] /\ sessions[room[c]][sessionID[v]] = 0
        /\ c \in peers[room[c]] /\ Cardinality(peers[room[c]]) = 2

\* What the queues hold after each call of cs, in order, is offered to its
\* recipient's queue.
RECURSIVE OfferedAll(_, _)
OfferedAll(q, cs) ==
    IF cs = <<>> THEN q
    ELSE OfferedAll([q EXCEPT ![cs[1][1]] = Offered(@, cs[1][2])], Tail(cs))

\* C19: every sendMessage call of a step either leaves a queue of 16
\* unchanged (the message is dropped) or appends the message at the tail,
\* and the only other change of a queue is writeLoop taking its head, so
\* accepted messages leave in the order they were enqueued; and a join that
\* holds the hub lock can always take its next step, whatever the queues
\* hold and whichever transports are stalled.
C19_EnqueueDropsOrAppends ==
    [][/\ \A c \in Clients :
            writeLoop(c) => send' = [send EXCEPT ![c] = Tail(@)]
       /\ (\A c \in Clients : ~writeLoop(c)) => send' = OfferedAll(send, calls')
       /\ \A c \in Clients :
            mu = <<"join", c>> /\ Alive => ENABLED handleJoinRegister(c)
      ]_vars

\* C20: a relay places a message in another connection's queue only when
\* its sender is, at that moment, a record of the room it is bound to.
C20_RelayOnlyFromOccupant ==
    [][\A c \in Clients :
        relaySend(c) /\ Grown \ {c} # {} => c \in RoomOf(c)
      ]_vars

\* C21: every connection whose queue receives a relayed message is, at that
\* moment, a record of the sender's room that is not marked disconnected,
\* and is not the sender.
C21_RelayOnlyToConnectedOther ==
    [][\A c \in Clients :
        relaySend(c) =>
          \A d \in Grown : d # c /\ d \in RoomOf(c) /\ ~disconnectedAt[d]
      ]_vars

\* C22: in every reachable state, for every room r and connection c, c is
\* in the peers index of r exactly when the sessions index of r maps c's
\* session to c; and every entry of the sessions index names a connection
\* of that session.
C22_IndicesAgree ==
    \A r \in RoomNames :
        /\ \A c \in Clients :
              c \in peers[r] <=>
                (sessionID[c] \in SessionIds /\ sessions[r][sessionID[c]] = c)
        /\ \A s \in SessionIds :
              sessions[r][s] # 0 => sessionID[sessions[r][s]] = s

\* A room holds two records under two sessions, and a third connection,
\* bound to the same room under one of those sessions, is in neither index.
C22_Witness ==
    \E r \in rooms, c, d, x \in Clients :
        /\ c # d /\ x # c /\ x # d
        /\ peers[r] = {c, d}
        /\ sessions[r][sessionID[c]] = c /\ sessions[r][sessionID[d]] = d
        /\ room[x] = r /\ sessionID[x] = sessionID[c]
        /\ mu = <<>>

\* C23: the disconnect of a connection that is not a record of its room (it
\* never joined, or its record was evicted) changes neither the registry nor
\* any room's indices, marks nothing disconnected, makes no sendMessage call,
\* changes no queue and arms no timer; the connection only goes on to close
\* its own queue.
C23_DisconnectOfNonOccupant ==
    [][\A c \in Clients :
        handleDisconnect(c) /\ ~Occupant(c) =>
          /\ calls' = <<>>
          /\ pc'[c] = "close"
          /\ UNCHANGED <<rooms, peers, sessions, disconnectedAt, disconnectTimer,
                         send, closed, room, sessionID, mu, panicked>>
      ]_vars

\* A connection whose record was replaced by a rejoin of its session has
\* disconnected: it is not marked disconnected and has no timer, and the
\* record that replaced it is in the room.
C23_Witness ==
    \E x, c \in Clients :
        /\ x # c
        /\ pc[x] \in {"close", "closed"}
        /\ room[x] \in rooms /\ x \notin peers[room[x]]
        /\ ~disconnectedAt[x] /\ disconnectTimer[x] = "nil"
        /\ c \in peers[room[x]] /\ sessionID[c] = sessionID[x]

\* The step, taken by connection c on room R, stays within R: the other
\* rooms keep their registration, their records and their session index,
\* the connections bound elsewhere keep their timers, marks and queues'
\* state, and every sendMessage call and every queue that grows is c's or
\* one of `allowed`.
Within(R, c, allowed) ==
    /\ \A r \in RoomNames \ {R} :
          /\ (r \in rooms') = (r \in rooms)
          /\ peers'[r] = peers[r]
          /\ sessions'[r] = sessions[r]
    /\ \A d \in Clients \ {c} :
          room[d] # R =>
            /\ disconnectTimer'[d] = disconnectTimer[d]
            /\ disconnectedAt'[d] = disconnectedAt[d]
            /\ room'[d] = room[d] /\ sessionID'[d] = sessionID[d]
            /\ closed'[d] = closed[d]
            /\ send'[d] = send[d]
    /\ \A i \in 1..Len(calls') : calls'[i][1] = c \/ calls'[i][1] \in allowed
    /\ \A d \in Grown : d = c \/ d \in allowed

\* C24: a join, a relay, a disconnect or a timer callback of room R leaves
\* the other rooms' indices and the timers and queues of connections bound
\* elsewhere unchanged.  A join and a disconnect send only to the acting
\* connection or to records of R; a relay sends only to the connection it
\* found among the records of the sender's room, which is bound to that
\* room; a relay naming a target that is not a record of the sender's room
\* (a record of another room, say) is dropped.
C24_RoomsAreIsolated ==
    [][\A c \in Clients :
        /\ \A r \in RoomNames, s \in SessionIds :
              handleJoinBegin(c, r, s) => Within(r, c, peers[r])
        /\ handleJoinRegister(c) => Within(jmsg[c].room, c, peers[jmsg[c].room])
        /\ \A t \in RelayTypes, target \in TargetIds, from \in FromIds :
              relayBegin(c, t, target, from) => Within(room[c], c, {})
        /\ relayOther(c) => Within(room[c], c, {})
        /\ relayPeer(c) =>
              /\ Within(room[c], c, {})
              /\ rmsg[c].targetId \notin RoomOf(c) =>
                    pc'[c] = "read" /\ rpeer'[c] = 0
              /\ pc'[c] = "relaySend" =>
                    /\ rpeer'[c] = rmsg[c].targetId
                    /\ rpeer'[c] \in RoomOf(c)
                    /\ room[rpeer'[c]] = room[c]
        /\ relaySend(c) =>
              /\ room[rpeer[c]] = room[c]
              /\ Within(room[c], c, {rpeer[c]})
        /\ handleDisconnect(c) => Within(room[c], c, RoomOf(c))
        /\ finalizeDisconnect(c) => Within(room[c], c, {})
      ]_vars

\* Two rooms are occupied, and a relay of an occupant of one that named the
\* occupant of the other as its target is at the lookup of that target.
C24_Witness ==
    \E c, d \in Clients :
        /\ c # d
        /\ pc[c] = "relayPeer" /\ rmsg[c].targetId = d
        /\ room[c] \in rooms /\ room[d] \in rooms /\ room[c] # room[d]
        /\ c \in peers[room[c]] /\ d \in peers[room[d]] /\ ~disconnectedAt[d]

====
